---- MODULE Spec2Model ----
(***************************************************************************)
(* The rectangle session and the viewport mapping of ImageLabeler          *)
(* (src/main.py): the image and its zoomed copy, the drag state, the       *)
(* committed rectangles, and the handlers that change them.                *)
(*                                                                         *)
(* Numbers.  Python computes the mapping in floating point and QPoint      *)
(* converts each coordinate with int(), i.e. truncation toward zero (up to *)
(* Python 3.9; from 3.10 on PyQt5 rejects a float with a TypeError).  The  *)
(* model computes the same quotients exactly over the integers (TruncDiv). *)
(* QSize * float rounds with qRound (half away from zero).  For the inputs *)
(* explored here the floating-point results equal the exact ones.          *)
(*                                                                         *)
(* Qt.  A QPixmap object is always truthy in Python, also the null pixmap  *)
(* that QPixmap.scaled returns for an empty target size; only None is      *)
(* falsy.  The geometry of the image label and the scroll bar values       *)
(* belong to Qt: a handler reads them when it runs, so they are inputs of  *)
(* the mouse handlers (geom).                                              *)
(*                                                                         *)
(* Faults.  A handler that raises (division by a zero scaled dimension)    *)
(* keeps the assignments made before the raise; PyQt5 then aborts the      *)
(* application, so no handler runs once fault names the raise.            *)
(*                                                                         *)
(* Matrix files.  A file is written as the number of values on each of its *)
(* lines, a background value, and the cells that differ from it; the       *)
(* normalized image is written the same way.  Values are integers: float() *)
(* of an integer token is exact, and for them (v - min) / (max - min) * 255 *)
(* truncates to the same byte as the exact quotient.  A token that is not  *)
(* a number is not modelled.                                               *)
(*                                                                         *)
(* Not modelled: the append-only message log and the mouse position label, *)
(* which nothing reads back, and the pixels painted by paintEvent.         *)
(***************************************************************************)
EXTENDS Integers, Sequences, FiniteSets, TLC

VARIABLES
    meta_img,           \* the normalized 3-channel matrix, or NoMatrix
    original_img,       \* QPixmap of the loaded matrix, or None
    original_img_size,  \* its QSize, or None
    scaled_img,         \* the zoomed QPixmap, or None
    current_scale,      \* zoom in percent (the code stores percent / 100.0)
    is_drawing,         \* TRUE while a drag is in progress
    start_point,        \* drag start, original-image coordinates
    end_point,          \* drag end, original-image coordinates
    rectangles,         \* committed rectangles, <<top-left, bottom-right>> each
    recordText,         \* lines shown in the record pane
    saved,              \* the file the last handler wrote, NoFile if none
    fault               \* the handler that raised and its exception, or NoFault

vars == <<meta_img, original_img, original_img_size, scaled_img, current_scale, is_drawing,
          start_point, end_point, rectangles, recordText, saved, fault>>

image == <<meta_img, original_img, original_img_size, scaled_img>>
session == <<is_drawing, start_point, end_point, rectangles, recordText>>

----
\* Program constants

min_rect_area == 10
CursorOffset == 10
SliderMin == 10
SliderMax == 200
SliderInit == 100

\* Bounds of the model: the longest committed list explored, and the largest
\* value in the matrices the loader is tried on
MaxRects == 2
MaxValue == 3

----
\* Values

Min(a, b) == IF a <= b THEN a ELSE b
Max(a, b) == IF a >= b THEN a ELSE b
Abs(a) == IF a >= 0 THEN a ELSE -a

\* int(a / b) for b > 0: Python's float-to-int conversion truncates toward zero
TruncDiv(a, b) == IF a >= 0 THEN a \div b ELSE -((-a) \div b)

\* qRound(n / d) for n >= 0, d > 0: int(n / d + 0.5)
qRound(n, d) == (2 * n + d) \div (2 * d)

QPoint(x, y) == [x |-> x, y |-> y]
QSize(w, h) == [isNone |-> FALSE, w |-> w, h |-> h]
QPixmap(w, h) == [isNone |-> FALSE, w |-> w, h |-> h]
None == [isNone |-> TRUE, w |-> 0, h |-> 0]
NullPixmap == QPixmap(0, 0)

LeftButton == "LeftButton"
RightButton == "RightButton"
Buttons == {LeftButton, RightButton}

NoFile == [ext |-> "none", data |-> <<>>]

\* Values of fault
NoFault == <<"none", "none">>
Raised(handler, exception) == <<handler, exception>>

----
\* Matrix files: load_matrix_from_txt and the normalization of loadImage

MatrixFile(lens, bg, cells) == [lens |-> lens, bg |-> bg, cells |-> cells]

\* self.meta_img = None
NoMatrix == [isNone |-> TRUE, h |-> 0, w |-> 0, bg |-> <<0, 0, 0>>,
             cells |-> [p \in {} |-> <<0, 0, 0>>]]

\* The lines of the file all hold the same number of values
Rectangular(lens) == \A i \in 1..Len(lens) : lens[i] = lens[1]

\* Only a file without values fails to load
LoadRaisesOnEmptyOnly(file) ==
    \/ Len(file.lens) = 0
    \/ file.lens[1] = 0

\* Lines 143-144 raise.  np.array of rows of different lengths is a
\* ValueError (numpy >= 1.24; before, a 1-D array of lists on which the
\* subtraction of line 144 raises); min() of an array without elements (no
\* lines, or empty lines only) is a ValueError.  Whatever is left is a 2-D
\* array, so of the shape tests of lines 145-155 only the first is ever taken
LoadRaises(file) ==
    \/ Len(file.lens) = 0
    \/ ~Rectangular(file.lens)
    \/ file.lens[1] = 0

\* The values of the matrix: those of the cells, and the background when some
\* position is not among the cells
MatValues(file) ==
    {file.cells[p] : p \in DOMAIN file.cells}
        \cup (IF Cardinality(DOMAIN file.cells) < Len(file.lens) * file.lens[1]
              THEN {file.bg}
              ELSE {})

\* mat.min(), mat.max()
MatMin(file) == CHOOSE v \in MatValues(file) : \A u \in MatValues(file) : v <= u
MatMax(file) == CHOOSE v \in MatValues(file) : \A u \in MatValues(file) : v >= u

\* ((v - min) / (max - min) * 255).astype(np.uint8): truncation; for
\* min = max the quotient is 0 / 0 = nan, whose conversion to uint8 is not
\* defined: nan_byte is the byte the build produces
Normalize(v, lo, hi, nan_byte) ==
    IF hi = lo THEN nan_byte ELSE (255 * (v - lo)) \div (hi - lo)

\* Line 147 left out: the value repeated in the three channels
PixelReplicated(n) == <<n, n, n>>

\* np.repeat(..., 3, axis=2) and mat[:, :, 1:] = 0: channels 1 and 2 are 0
Pixel(n) == <<n, 0, 0>>

\* self.meta_img after a load that does not raise: h x w x 3 bytes
NormalizedMatrix(file, nan_byte) ==
    LET lo == MatMin(file)
        hi == MatMax(file)
    IN  [isNone |-> FALSE,
         h |-> Len(file.lens),
         w |-> file.lens[1],
         bg |-> Pixel(Normalize(file.bg, lo, hi, nan_byte)),
         cells |-> [p \in DOMAIN file.cells |->
                       Pixel(Normalize(file.cells[p], lo, hi, nan_byte))]]

\* Bytes a conversion of nan to uint8 is taken to produce
NanBytes == {0, 255}

----
\* Zoom: displayImage, line 209

\* QSize * float: each dimension is qRound(dimension * percent / 100)
QSizeTimes(size, percent) ==
    QSize(qRound(size.w * percent, 100), qRound(size.h * percent, 100))

\* Qt.KeepAspectRatioByExpanding in place of Qt.KeepAspectRatio
KeepAspectRatioByExpanding(size, target) ==
    LET rw == (target.h * size.w) \div size.h
    IN  IF rw >= target.w
        THEN QSize(rw, target.h)
        ELSE QSize(target.w, (target.w * size.h) \div size.w)

\* QSize.scaled(target, Qt.KeepAspectRatio): the largest size of the aspect
\* ratio of `size` that fits inside `target`, integer division truncating
KeepAspectRatio(size, target) ==
    LET rw == (target.h * size.w) \div size.h
    IN  IF rw <= target.w
        THEN QSize(rw, target.h)
        ELSE QSize(target.w, (target.w * size.h) \div size.w)

\* QPixmap.scaled(target, Qt.KeepAspectRatio, ...): the null pixmap for an
\* empty target, else a pixmap of the fitted size, at least 1 x 1
PixmapScaled(pixmap, target) ==
    IF target.w <= 0 \/ target.h <= 0
    THEN NullPixmap
    ELSE LET fit == KeepAspectRatio(pixmap, target)
         IN  QPixmap(Max(fit.w, 1), Max(fit.h, 1))

\* displayImage: the value of scaled_img it leaves behind
displayImage(original, size, scaled, percent) ==
    IF ~scaled.isNone
    THEN PixmapScaled(original, QSizeTimes(size, percent))
    ELSE scaled

----
\* Pointer mapping

\* imageLabel.rect().contains(pos): QRect(0, 0, w, h) holds 0..w-1 x 0..h-1
LabelContains(geom, pos) ==
    /\ 0 <= pos.x /\ pos.x <= geom.w - 1
    /\ 0 <= pos.y /\ pos.y <= geom.h - 1

\* The offset applied to x alone
OffsetCursorPosXOnly(pos) == QPoint(pos.x - CursorOffset, pos.y)

\* QPoint(event.pos().x() - 10, event.pos().y() - 10)
OffsetCursorPos(pos) == QPoint(pos.x - CursorOffset, pos.y - CursorOffset)

\* The clamp without its lower bound
cropPointNoLowerBound(pos, original) ==
    QPoint(Min(pos.x, original.w), Min(pos.y, original.h))

\* cropPoint: clamp into [0, width] x [0, height] of the original image
cropPoint(pos, original) ==
    QPoint(Max(0, Min(pos.x, original.w)), Max(0, Min(pos.y, original.h)))

\* corrected_pos of convertToOriginalImageCoords: pos - offset + scroll, where
\* offset = (label - scaled) / 2 is a float (0 when scaled_img is None) and
\* QPoint truncates the sum
CorrectedPos(pos, geom, scaled) ==
    LET offX2 == IF scaled.isNone THEN 0 ELSE geom.w - scaled.w
        offY2 == IF scaled.isNone THEN 0 ELSE geom.h - scaled.h
    IN  QPoint(TruncDiv(2 * pos.x - offX2 + 2 * geom.h_scroll, 2),
               TruncDiv(2 * pos.y - offY2 + 2 * geom.v_scroll, 2))

\* convertToOriginalImageCoords raises: .width() of None, or a division by a
\* zero scaled dimension; cropPoint raises on .width() of None
MapFaults(original, scaled) ==
    \/ original.isNone
    \/ scaled.isNone
    \/ scaled.w = 0
    \/ scaled.h = 0

\* convertToOriginalImageCoords where it does not raise
convertToOriginalImageCoords(pos, geom, original, scaled) ==
    LET c == CorrectedPos(pos, geom, scaled)
    IN  QPoint(TruncDiv(c.x * original.w, scaled.w),
               TruncDiv(c.y * original.h, scaled.h))

\* The three mouse handlers' mapping: offset the cursor, convert, crop
MappedPos(pos, geom, original, scaled) ==
    cropPoint(convertToOriginalImageCoords(OffsetCursorPos(pos), geom,
                                           original, scaled),
              original)

\* The position handed back unscaled
convertToScaledImageCoordsUnscaled(original_pos, original, scaled) ==
    original_pos

\* convertToScaledImageCoords: original_pos where an image is missing, else
\* scaled by scaled / original per axis and truncated; a null scaled pixmap
\* is truthy and gives (0, 0)
convertToScaledImageCoords(original_pos, original, scaled) ==
    IF ~original.isNone /\ ~scaled.isNone
    THEN QPoint(TruncDiv(original_pos.x * scaled.w, original.w),
                TruncDiv(original_pos.y * scaled.h, original.h))
    ELSE original_pos

----
\* Rectangles

\* The corners kept in drag order
toTLBRDragOrder(p1, p2) == <<p1, p2>>

\* toTLBR: the pair (top-left, bottom-right) of the two corners
toTLBR(p1, p2) ==
    <<QPoint(Min(p1.x, p2.x), Min(p1.y, p2.y)),
      QPoint(Max(p1.x, p2.x), Max(p1.y, p2.y))>>

\* The area test of mouseReleaseEvent, lines 278-279
AreaAccepted(p1, p2) ==
    Abs(p2.x - p1.x) * Abs(p2.y - p1.y) > min_rect_area

\* rect2Text: line i is "Area i: x0, y0, x1, y1"
rect2Text(rects) ==
    [i \in 1..Len(rects) |->
        <<i, rects[i][1].x, rects[i][1].y, rects[i][2].x, rects[i][2].y>>]

\* The .json branch numbering from 0
JsonExportFromZero(rects) ==
    [i \in 1..Len(rects) |->
        [id |-> i - 1,
         tlbw |-> <<Min(rects[i][1].y, rects[i][2].y),
                    Min(rects[i][1].x, rects[i][2].x),
                    Max(rects[i][1].y, rects[i][2].y),
                    Max(rects[i][1].x, rects[i][2].x)>>]]

\* The .json branch of saveRectangles: {'id': idx, 'tlbw': [t, l, b, w]}
JsonExport(rects) ==
    [i \in 1..Len(rects) |->
        LET top_left == rects[i][1]
            bottom_right == rects[i][2]
        IN  [id |-> i,
             tlbw |-> <<Min(top_left.y, bottom_right.y),
                        Min(top_left.x, bottom_right.x),
                        Max(top_left.y, bottom_right.y),
                        Max(top_left.x, bottom_right.x)>>]]

\* The .txt branch of saveRectangles: one line "x0 y0 x1 y1" per rectangle
TxtExport(rects) ==
    [i \in 1..Len(rects) |->
        <<rects[i][1].x, rects[i][1].y, rects[i][2].x, rects[i][2].y>>]

----
\* State after __init__ (lines 32-44); the slider starts at 100 percent

Init ==
    /\ meta_img = NoMatrix
    /\ original_img = None
    /\ original_img_size = None
    /\ scaled_img = None
    /\ current_scale = SliderInit
    /\ is_drawing = FALSE
    /\ start_point = QPoint(0, 0)
    /\ end_point = QPoint(0, 0)
    /\ rectangles = <<>>
    /\ recordText = <<>>
    /\ saved = NoFile
    /\ fault = NoFault

----
\* Handlers

\* loadImage with `file` chosen in the dialog (chosen = FALSE: the dialog was
\* cancelled).  A load that raises has assigned nothing yet.
loadImage(chosen, file) ==
    /\ fault = NoFault
    /\ IF ~chosen
       THEN UNCHANGED <<image, fault>>
       ELSE IF LoadRaises(file)
       THEN /\ fault' = Raised("loadImage", "ValueError")
            /\ UNCHANGED image
       ELSE /\ \E nan_byte \in NanBytes :
                  meta_img' = NormalizedMatrix(file, nan_byte)
            /\ original_img' = QPixmap(meta_img'.w, meta_img'.h)
            /\ original_img_size' = QSize(original_img'.w, original_img'.h)
            /\ scaled_img' = displayImage(original_img', original_img_size',
                                          original_img', current_scale)
            /\ UNCHANGED fault
    /\ saved' = NoFile
    /\ UNCHANGED <<current_scale, session>>

\* scaleImage: the slider moved to `percent`
scaleImage(percent) ==
    /\ fault = NoFault
    /\ current_scale' = percent
    /\ scaled_img' = IF ~original_img.isNone
                     THEN displayImage(original_img, original_img_size,
                                       scaled_img, percent)
                     ELSE scaled_img
    /\ saved' = NoFile
    /\ UNCHANGED <<meta_img, original_img, original_img_size, session, fault>>

\* pop(0) in place of pop(): the list without its first element
PopFirst(rects) == SubSeq(rects, 2, Len(rects))

\* list.pop(): the list without its last element
Pop(rects) == SubSeq(rects, 1, Len(rects) - 1)

\* Undo that also cancels the drag in progress
undoCancelsDrag ==
    /\ fault = NoFault
    /\ IF Len(rectangles) > 0
       THEN /\ rectangles' = Pop(rectangles)
            /\ recordText' = rect2Text(rectangles')
       ELSE UNCHANGED <<rectangles, recordText>>
    /\ is_drawing' = FALSE
    /\ saved' = NoFile
    /\ UNCHANGED <<image, current_scale, start_point, end_point, fault>>

\* undoLastRectangle
undoLastRectangle ==
    /\ fault = NoFault
    /\ IF Len(rectangles) > 0
       THEN /\ rectangles' = Pop(rectangles)
            /\ recordText' = rect2Text(rectangles')
       ELSE UNCHANGED <<rectangles, recordText>>
    /\ saved' = NoFile
    /\ UNCHANGED <<image, current_scale, is_drawing, start_point, end_point, fault>>

\* A save that empties the list once it is written
saveRectanglesAndClear(ext) ==
    /\ fault = NoFault
    /\ saved' = IF ext = "json"
                THEN [ext |-> "json", data |-> JsonExport(rectangles)]
                ELSE IF ext = "txt"
                THEN [ext |-> "txt", data |-> TxtExport(rectangles)]
                ELSE NoFile
    /\ rectangles' = <<>>
    /\ UNCHANGED <<image, current_scale, is_drawing, start_point, end_point,
                   recordText, fault>>

\* saveRectangles with a file name ending in .json, in .txt, or in neither
\* (which includes the cancelled dialog's empty name)
saveRectangles(ext) ==
    /\ fault = NoFault
    /\ saved' = IF ext = "json"
                THEN [ext |-> "json", data |-> JsonExport(rectangles)]
                ELSE IF ext = "txt"
                THEN [ext |-> "txt", data |-> TxtExport(rectangles)]
                ELSE NoFile
    /\ UNCHANGED <<image, current_scale, session, fault>>

\* mouseMoveEvent
mouseMoveEvent(pos, geom) ==
    /\ fault = NoFault
    /\ IF ~scaled_img.isNone /\ LabelContains(geom, pos)
       THEN IF MapFaults(original_img, scaled_img)
            THEN /\ fault' = Raised("mouseMoveEvent", "ZeroDivisionError")
                 /\ UNCHANGED end_point
            ELSE /\ end_point' = IF is_drawing
                                 THEN MappedPos(pos, geom, original_img, scaled_img)
                                 ELSE end_point
                 /\ UNCHANGED fault
       ELSE UNCHANGED <<end_point, fault>>
    /\ saved' = NoFile
    /\ UNCHANGED <<image, current_scale, is_drawing, start_point, rectangles,
                   recordText>>

\* The guard of mousePressEvent, line 263
PressStartsDrag(pos, button, geom, scaled) ==
    button = LeftButton /\ ~scaled.isNone /\ LabelContains(geom, pos)

\* mousePressEvent: is_drawing is set before the position is mapped
mousePressEvent(pos, button, geom) ==
    /\ fault = NoFault
    /\ IF PressStartsDrag(pos, button, geom, scaled_img)
       THEN /\ is_drawing' = TRUE
            /\ IF MapFaults(original_img, scaled_img)
               THEN /\ fault' = Raised("mousePressEvent", "ZeroDivisionError")
                    /\ UNCHANGED <<start_point, end_point>>
               ELSE /\ start_point' = MappedPos(pos, geom, original_img, scaled_img)
                    /\ end_point' = start_point'
                    /\ UNCHANGED fault
       ELSE UNCHANGED <<is_drawing, start_point, end_point, fault>>
    /\ saved' = NoFile
    /\ UNCHANGED <<image, current_scale, rectangles, recordText>>

\* Any button's release ends the drag
ReleaseAnyButton(button, drawing) == drawing

\* The guard of mouseReleaseEvent, line 272
ReleaseGuard(button, drawing) == button = LeftButton /\ drawing

\* A release outside the label keeps the end point of the drag
ReleaseEndPointInViewport(pos, geom, end, original, scaled) ==
    IF LabelContains(geom, pos)
    THEN MappedPos(pos, geom, original, scaled)
    ELSE end

\* The end point of mouseReleaseEvent, lines 274-276: the release position,
\* mapped and cropped, wherever it is
ReleaseEndPoint(pos, geom, end, original, scaled) ==
    MappedPos(pos, geom, original, scaled)

\* mouseReleaseEvent: is_drawing is cleared before the position is mapped.
\* A release that would make the list longer than MaxRects is not explored.
mouseReleaseEvent(pos, button, geom) ==
    /\ fault = NoFault
    /\ IF ReleaseGuard(button, is_drawing)
       THEN /\ is_drawing' = FALSE
            /\ IF MapFaults(original_img, scaled_img)
               THEN /\ fault' = Raised("mouseReleaseEvent", "ZeroDivisionError")
                    /\ UNCHANGED <<end_point, rectangles, recordText>>
               ELSE /\ end_point' = ReleaseEndPoint(pos, geom, end_point,
                                                   original_img, scaled_img)
                    /\ rectangles' =
                          IF AreaAccepted(start_point, end_point')
                          THEN Append(rectangles, toTLBR(start_point, end_point'))
                          ELSE rectangles
                    /\ Len(rectangles') <= MaxRects
                    /\ recordText' = rect2Text(rectangles')
                    /\ UNCHANGED fault
       ELSE UNCHANGED <<is_drawing, end_point, rectangles, recordText, fault>>
    /\ saved' = NoFile
    /\ UNCHANGED <<image, current_scale, start_point>>

----
\* Inputs explored

Geom(w, h, hs, vs) == [w |-> w, h |-> h, h_scroll |-> hs, v_scroll |-> vs]

\* adjustSize() in displayImage gives the label the size of the pixmap: the
\* centering offset is then zero
FitGeom(scaled) == Geom(scaled.w, scaled.h, 0, 0)

Extensions == {"json", "txt", "other"}

\* size.h lines of size.w values each
Lines(size) == [i \in 1..size.h |-> size.w]

NoCells == [p \in {} |-> 0]

\* A matrix of the given size: 0 everywhere but 1 in the first cell and 3 in
\* the last
TestFile(size) ==
    MatrixFile(Lines(size), 0,
               [p \in {<<1, 1>>, <<size.h, size.w>>} |->
                   IF p = <<1, 1>> THEN 1 ELSE 3])

\* The 4 x 4 matrix with 5 in the four centre cells and 0 elsewhere
CentreFile ==
    MatrixFile(<<4, 4, 4, 4>>, 0,
               [p \in {<<2, 2>>, <<2, 3>>, <<3, 2>>, <<3, 3>>} |-> 5])

\* Files that hold no matrix: no lines, blank lines only, lines of different
\* lengths
BadFiles == {MatrixFile(<<>>, 0, NoCells), MatrixFile(<<0, 0>>, 0, NoCells),
             MatrixFile(<<2, 1>>, 0, NoCells)}

\* The session: two small images, the second smaller than the first; at 10
\* percent both scale to the null pixmap
Files == {TestFile(QSize(12, 3)), CentreFile} \cup BadFiles
Zooms == {SliderMin, SliderInit}
Geoms == {Geom(32, 23, 0, 0)}
Positions == {QPoint(-5, -5), QPoint(20, 20), QPoint(30, 21), QPoint(31, 21),
              QPoint(40, 40)}

Next ==
    \/ \E chosen \in BOOLEAN, file \in Files : loadImage(chosen, file)
    \/ \E percent \in Zooms : scaleImage(percent)
    \/ undoLastRectangle
    \/ \E ext \in Extensions : saveRectangles(ext)
    \/ \E pos \in Positions, geom \in Geoms : mouseMoveEvent(pos, geom)
    \/ \E pos \in Positions, button \in Buttons, geom \in Geoms :
          mousePressEvent(pos, button, geom)
    \/ \E pos \in Positions, button \in Buttons, geom \in Geoms :
          mouseReleaseEvent(pos, button, geom)

Spec == Init /\ [][Next]_vars

\* The viewport: more images, zooms, label sizes and scroll values, under
\* loads, zoom changes, moves and primary-button presses
ViewFiles == {TestFile(QSize(100, 100)), TestFile(QSize(12, 3)),
              TestFile(QSize(3, 2))}
ViewZooms == {SliderMin, 35, 50, SliderInit, 150, 175, SliderMax}
ViewPositions == {QPoint(0, 0), QPoint(25, 25), QPoint(35, 35), QPoint(49, 22)}
ViewGeomsOf(scaled) ==
    {FitGeom(scaled), Geom(50, 50, 0, 0), Geom(32, 23, 7, 3)}

NextView ==
    \/ \E file \in ViewFiles : loadImage(TRUE, file)
    \/ \E percent \in ViewZooms : scaleImage(percent)
    \/ \E pos \in ViewPositions, geom \in ViewGeomsOf(scaled_img) :
          mouseMoveEvent(pos, geom)
    \/ \E pos \in ViewPositions, geom \in ViewGeomsOf(scaled_img) :
          mousePressEvent(pos, LeftButton, geom)

SpecView == Init /\ [][NextView]_vars

\* The loader: the 2 x 2 matrices of values 0..MaxValue whose first line is
\* free and whose second line holds one value twice, the constant ones
\* included, the 4 x 4 centre matrix and the files without a matrix
LoadFiles ==
    {MatrixFile(<<2, 2>>, bg, cells) :
        bg \in 0..MaxValue,
        cells \in [{<<1, 1>>, <<1, 2>>} -> 0..MaxValue]}
        \cup {CentreFile} \cup BadFiles
LoadZooms == {50, SliderInit, SliderMax}

NextLoad ==
    \/ \E file \in LoadFiles : loadImage(TRUE, file)
    \/ \E percent \in LoadZooms : scaleImage(percent)

SpecLoad == Init /\ [][NextLoad]_vars

----
\* Properties

Area(p1, p2) == Abs(p2.x - p1.x) * Abs(p2.y - p1.y)

InBounds(p, original) ==
    /\ 0 <= p.x /\ p.x <= original.w
    /\ 0 <= p.y /\ p.y <= original.h

Clamp(v, hi) == IF v < 0 THEN 0 ELSE IF v > hi THEN hi ELSE v

RoundHalfUp(n, d) == (2 * n + d) \div (2 * d)

\* A step in which a primary-button release ends a drag: only
\* mouseReleaseEvent takes is_drawing from TRUE to FALSE
ReleaseEndsDrag == is_drawing /\ ~is_drawing'

\* C1 (as claimed): a release that ends a drag appends the rectangle if and
\* only if |end.x - start.x| * |end.y - start.y| > min_rect_area; a rejected
\* drag leaves the committed list exactly as it was
C1_StrictAreaThreshold ==
    [][ReleaseEndsDrag =>
          IF Area(start_point, end_point') > min_rect_area
          THEN /\ Len(rectangles') = Len(rectangles) + 1
               /\ SubSeq(rectangles', 1, Len(rectangles)) = rectangles
          ELSE rectangles' = rectangles]_vars

\* The area test itself is strict: every release that ends a drag without
\* raising appends exactly when the area is > min_rect_area
ReturningReleaseAppliesThreshold ==
    [][(ReleaseEndsDrag /\ fault' = NoFault) =>
          IF Area(start_point, end_point') > min_rect_area
          THEN /\ Len(rectangles') = Len(rectangles) + 1
               /\ SubSeq(rectangles', 1, Len(rectangles)) = rectangles
          ELSE rectangles' = rectangles]_vars

\* A drag of area exactly min_rect_area has just been rejected, after a drag
\* of area min_rect_area + 1 was committed
ThresholdReached ==
    /\ ~is_drawing /\ fault = NoFault
    /\ Area(start_point, end_point) = min_rect_area
    /\ Len(rectangles) = 1
    /\ Area(rectangles[1][1], rectangles[1][2]) = min_rect_area + 1

\* C2: every committed rectangle is normalized: left <= right, top <= bottom
C2_RectanglesNormalized ==
    \A i \in 1..Len(rectangles) :
        /\ rectangles[i][1].x <= rectangles[i][2].x
        /\ rectangles[i][1].y <= rectangles[i][2].y

\* C2 witness: a drag from the bottom-right to the top-left has been committed
\* with its corners swapped
C2_Witness ==
    /\ ~is_drawing /\ fault = NoFault
    /\ start_point.x > end_point.x /\ start_point.y > end_point.y
    /\ Len(rectangles) >= 1
    /\ rectangles[Len(rectangles)] = <<end_point, start_point>>

\* C3: undo on an empty list changes nothing; undo on N >= 1 rectangles leaves
\* the first N - 1 of them, in order
C3_UndoRemovesLast ==
    [][undoLastRectangle =>
          IF Len(rectangles) = 0
          THEN rectangles' = rectangles
          ELSE /\ Len(rectangles') = Len(rectangles) - 1
               /\ \A i \in 1..Len(rectangles') : rectangles'[i] = rectangles[i]]_vars

\* C3 witness: the last finished drag was accepted, yet the list holds one
\* rectangle and it is another one: the drag's rectangle was committed second
\* and undone, the first one stayed
C3_Witness ==
    /\ ~is_drawing /\ fault = NoFault
    /\ Area(start_point, end_point) > min_rect_area
    /\ Len(rectangles) = 1
    /\ rectangles[1] # toTLBR(start_point, end_point)

\* C4: every point the handlers produce by map-then-clamp lies in
\* [0, W] x [0, H] of the loaded image: each new drag start and drag end, and
\* the mapping of negative and over-large pointer positions under every
\* geometry explored
C4_ProbePositions == ViewPositions \cup {QPoint(-5, -5), QPoint(-300, 7),
                                         QPoint(200, 200), QPoint(7, 1000)}

C4_MappedPointInBounds ==
    /\ [][~original_img.isNone =>
            /\ (start_point' # start_point => InBounds(start_point', original_img))
            /\ (end_point' # end_point => InBounds(end_point', original_img))]_vars
    /\ [](~MapFaults(original_img, scaled_img) =>
            \A pos \in C4_ProbePositions, geom \in ViewGeomsOf(scaled_img) :
                InBounds(MappedPos(pos, geom, original_img, scaled_img),
                         original_img))

\* C4 witness: a drag whose start was clamped at the lower bound and whose end
\* was clamped at the upper bound, on a zoomed-out image
C4_Witness ==
    /\ is_drawing /\ fault = NoFault
    /\ current_scale = SliderMin /\ original_img = QPixmap(100, 100)
    /\ start_point = QPoint(0, 0)
    /\ end_point.x = original_img.w

\* C5 (as claimed): immediately after a successful load the committed list is
\* empty and the session is Idle
C5_LoadResetsSession ==
    [][(\E file \in Files : ~LoadRaises(file) /\ loadImage(TRUE, file)) =>
          (rectangles' = <<>> /\ ~is_drawing')]_vars

\* C6: the .json export of N rectangles has N entries, entry i has id i and
\* carries top, left, bottom, right of the i-th committed rectangle
C6_JsonIdsArePositions ==
    saved.ext = "json" =>
        /\ Len(saved.data) = Len(rectangles)
        /\ \A i \in 1..Len(rectangles) :
              /\ saved.data[i].id = i
              /\ saved.data[i].tlbw = <<rectangles[i][1].y, rectangles[i][1].x,
                                        rectangles[i][2].y, rectangles[i][2].x>>

\* C6 witness: a list of two different rectangles has been exported
C6_Witness ==
    /\ saved.ext = "json"
    /\ Len(rectangles) = 2
    /\ rectangles[1] # rectangles[2]

\* C7 (as claimed): the .txt export holds, for each rectangle, the four
\* integers of the .json export in the same order top, left, bottom, right
C7_TxtSameOrderAsJson ==
    saved.ext = "txt" =>
        \A i \in 1..Len(rectangles) :
            saved.data[i] = JsonExport(rectangles)[i].tlbw

\* C8 (as claimed): the scaled size is (round(W*p/100), round(H*p/100))
C8_ScaledSizeExact ==
    ~original_img.isNone =>
        /\ scaled_img.w = RoundHalfUp(original_img.w * current_scale, 100)
        /\ scaled_img.h = RoundHalfUp(original_img.h * current_scale, 100)

\* C8 (amended): with (tw, th) = (round(W*p/100), round(H*p/100)), no axis of
\* the scaled image exceeds its rounded size; a square image has exactly that
\* size; when tw and th are both >= 1 at least one axis has exactly its
\* rounded size and both are >= 1; when one of them is 0 the scaled image is
\* the null pixmap, 0 x 0
C8_ScaledSizeFits ==
    ~original_img.isNone =>
        LET tw == RoundHalfUp(original_img.w * current_scale, 100)
            th == RoundHalfUp(original_img.h * current_scale, 100)
        IN  /\ scaled_img.w <= tw /\ scaled_img.h <= th
            /\ (original_img.w = original_img.h =>
                    scaled_img.w = tw /\ scaled_img.h = th)
            /\ (tw >= 1 /\ th >= 1 =>
                    /\ scaled_img.w >= 1 /\ scaled_img.h >= 1
                    /\ (scaled_img.w = tw \/ scaled_img.h = th))
            /\ (tw = 0 \/ th = 0 => scaled_img.w = 0 /\ scaled_img.h = 0)

\* C8 witness: a non-square image whose scaled height is below its rounded
\* size, 12 x 3 at 50 percent is 6 x 1
C8_Witness ==
    /\ original_img = QPixmap(12, 3)
    /\ current_scale = 50
    /\ scaled_img = QPixmap(6, 1)

\* A primary-button press at pos inside a label that fits the scaled image,
\* with both scroll bars at 0
PressAtFit(pos) ==
    /\ ~scaled_img.isNone
    /\ LabelContains(FitGeom(scaled_img), pos)
    /\ mousePressEvent(pos, LeftButton, FitGeom(scaled_img))

\* C9 (as claimed): with zero scroll and zero centering offset a press at d
\* starts a drag at (d.x * W / scaledW, d.y * H / scaledH), truncated and
\* clamped, no other offset applied
C9_StartIsScaledPosition ==
    [][\A pos \in ViewPositions :
          PressAtFit(pos) =>
              start_point' =
                  QPoint(Clamp(TruncDiv(pos.x * original_img.w, scaled_img.w),
                               original_img.w),
                         Clamp(TruncDiv(pos.y * original_img.h, scaled_img.h),
                               original_img.h))]_vars

\* C9 (amended): with zero scroll and zero centering offset a press at d
\* starts a drag at ((d.x - 10) * W / scaledW, (d.y - 10) * H / scaledH),
\* truncated toward zero and clamped; at 50 percent on a 100 x 100 image a
\* press at (35, 35) starts at (50, 50) and a press at (25, 25) at (30, 30)
C9_StartIsOffsetScaledPosition ==
    [][\A pos \in ViewPositions :
          PressAtFit(pos) =>
              /\ start_point' =
                  QPoint(Clamp(TruncDiv((pos.x - 10) * original_img.w, scaled_img.w),
                               original_img.w),
                         Clamp(TruncDiv((pos.y - 10) * original_img.h, scaled_img.h),
                               original_img.h))
              /\ (original_img = QPixmap(100, 100) /\ current_scale = 50 =>
                    /\ (pos = QPoint(35, 35) => start_point' = QPoint(50, 50))
                    /\ (pos = QPoint(25, 25) => start_point' = QPoint(30, 30)))]_vars

\* C9 witness: the drag started by a press at (25, 25) or (35, 35) on the
\* 100 x 100 image at 50 percent
C9_Witness ==
    /\ is_drawing /\ fault = NoFault
    /\ original_img = QPixmap(100, 100) /\ scaled_img = QPixmap(50, 50)
    /\ start_point = QPoint(30, 30) /\ end_point = start_point

\* C10 (as claimed): a primary-button press inside the viewport with an image
\* loaded makes the session Dragging with start = end = the mapped, clamped
\* position; any other press leaves the drawing flag, start, end and the list
\* unchanged
C10_PressStartsDrag ==
    [][\A pos \in Positions, button \in Buttons, geom \in Geoms :
          mousePressEvent(pos, button, geom) =>
              IF /\ button = LeftButton
                 /\ LabelContains(geom, pos)
                 /\ ~original_img.isNone
              THEN /\ is_drawing'
                   /\ ~MapFaults(original_img, scaled_img)
                   /\ start_point' = MappedPos(pos, geom, original_img, scaled_img)
                   /\ end_point' = start_point'
                   /\ rectangles' = rectangles
              ELSE UNCHANGED <<is_drawing, start_point, end_point, rectangles>>]_vars

\* Every press that does not raise behaves as C10 says
ReturningPressStartsDrag ==
    [][\A pos \in Positions, button \in Buttons, geom \in Geoms :
          (mousePressEvent(pos, button, geom) /\ fault' = NoFault) =>
              IF /\ button = LeftButton
                 /\ LabelContains(geom, pos)
                 /\ ~original_img.isNone
              THEN /\ is_drawing'
                   /\ start_point' = MappedPos(pos, geom, original_img, scaled_img)
                   /\ end_point' = start_point'
                   /\ rectangles' = rectangles
              ELSE UNCHANGED <<is_drawing, start_point, end_point, rectangles>>]_vars

----
\* Drag state machine

\* C11: the session is Idle initially and after every primary-button release,
\* inside or outside the viewport; a release while Idle, and a release of
\* another button while Dragging, change neither the drawing flag nor the list
C11_ReleaseReturnsToIdle ==
    /\ ~is_drawing
    /\ [][\A pos \in Positions, button \in Buttons, geom \in Geoms :
             mouseReleaseEvent(pos, button, geom) =>
                 /\ (button = LeftButton => ~is_drawing')
                 /\ (~is_drawing \/ button # LeftButton =>
                        UNCHANGED <<is_drawing, rectangles>>)]_vars

\* C11 witness: a drag on the 12 x 3 image was ended by a release outside the
\* viewport; only such a release gives an end point of x = 12
C11_Witness ==
    /\ ~is_drawing /\ fault = NoFault
    /\ original_img = QPixmap(12, 3)
    /\ end_point = QPoint(12, 3)

\* C12 (as claimed): while Dragging a move inside the viewport sets end to
\* the mapped, clamped position and leaves start, the flag and the list
\* unchanged; a move outside the viewport, and a move while Idle, leave start,
\* end, the flag and the list unchanged
C12_MoveUpdatesEndOnly ==
    [][\A pos \in Positions, geom \in Geoms :
          mouseMoveEvent(pos, geom) =>
              IF is_drawing /\ LabelContains(geom, pos)
              THEN /\ ~MapFaults(original_img, scaled_img)
                   /\ end_point' = MappedPos(pos, geom, original_img, scaled_img)
                   /\ UNCHANGED <<start_point, is_drawing, rectangles>>
              ELSE UNCHANGED <<start_point, end_point, is_drawing,
                               rectangles>>]_vars

\* Every move that does not raise behaves as C12 says
ReturningMoveUpdatesEndOnly ==
    [][\A pos \in Positions, geom \in Geoms :
          (mouseMoveEvent(pos, geom) /\ fault' = NoFault) =>
              IF is_drawing /\ LabelContains(geom, pos)
              THEN /\ end_point' = MappedPos(pos, geom, original_img, scaled_img)
                   /\ UNCHANGED <<start_point, is_drawing, rectangles>>
              ELSE UNCHANGED <<start_point, end_point, is_drawing,
                               rectangles>>]_vars

\* A primary-button release at pos, outside the viewport, that ends a drag
ReleaseOutside(pos, geom) ==
    /\ is_drawing
    /\ ~LabelContains(geom, pos)
    /\ mouseReleaseEvent(pos, LeftButton, geom)

\* C13 (as claimed): a release outside the viewport leaves the end point as
\* the press or the last in-viewport move set it, and the area test and the
\* committed rectangle use that end point
C13_ReleaseOutsideKeepsEnd ==
    [][\A pos \in Positions, geom \in Geoms :
          ReleaseOutside(pos, geom) =>
              /\ end_point' = end_point
              /\ rectangles' = IF Area(start_point, end_point) > min_rect_area
                               THEN Append(rectangles,
                                           toTLBR(start_point, end_point))
                               ELSE rectangles]_vars

\* C13 (amended): moves outside the viewport during a drag leave the end
\* point alone, the release does not: an end point stored by a release outside
\* the viewport is the release position, offset, mapped and clamped, and a
\* rectangle such a release commits spans start and that point, whose area
\* with start is above the threshold
C13_ReleaseOutsideUsesReleasePosition ==
    [][\A pos \in Positions, geom \in Geoms :
          /\ (is_drawing /\ ~LabelContains(geom, pos) /\ mouseMoveEvent(pos, geom)
                => end_point' = end_point)
          /\ (ReleaseOutside(pos, geom) /\ end_point' # end_point
                => /\ ~MapFaults(original_img, scaled_img)
                   /\ end_point' = MappedPos(pos, geom, original_img, scaled_img))
          /\ (ReleaseOutside(pos, geom) /\ rectangles' # rectangles
                => /\ ~MapFaults(original_img, scaled_img)
                   /\ Area(start_point,
                           MappedPos(pos, geom, original_img, scaled_img))
                        > min_rect_area
                   /\ rectangles' =
                        Append(rectangles,
                               toTLBR(start_point,
                                      MappedPos(pos, geom, original_img,
                                                scaled_img))))]_vars

\* C13 witness: on the 12 x 3 image a drag whose last in-viewport end was
\* (11, 1) or less was released outside the viewport and committed up to the
\* image corner (12, 3)
C13_Witness ==
    /\ ~is_drawing /\ fault = NoFault
    /\ original_img = QPixmap(12, 3)
    /\ end_point = QPoint(12, 3)
    /\ Len(rectangles) >= 1
    /\ rectangles[Len(rectangles)] = <<start_point, end_point>>
    /\ start_point = QPoint(0, 0)

\* C14: undo while Dragging leaves the drawing flag, the drag start and the
\* drag end unchanged, and the rectangle a release commits is made of the
\* drag start and the release's end point alone, whatever the list holds
C14_UndoKeepsDrag ==
    /\ [][(is_drawing /\ undoLastRectangle) =>
             UNCHANGED <<is_drawing, start_point, end_point>>]_vars
    /\ [][(ReleaseEndsDrag /\ Len(rectangles') = Len(rectangles) + 1) =>
             rectangles'[Len(rectangles')] = toTLBR(start_point, end_point')]_vars

\* C14 witness: on the 12 x 3 image a drag of area above the threshold is in
\* progress while the list holds a rectangle for undo to remove
C14_Witness ==
    /\ is_drawing /\ fault = NoFault
    /\ original_img = QPixmap(12, 3)
    /\ Area(start_point, end_point) > min_rect_area
    /\ Len(rectangles) = 1

\* C15: in every step the committed list either stays as it is, or a
\* primary-button release appends one rectangle at its end, or an undo removes
\* its last rectangle, or a load empties it; presses, moves, zoom changes and
\* saves leave it as it is
C15_ListChangesOnlyByAppendUndoReset ==
    /\ [][rectangles' # rectangles =>
             \/ /\ \E pos \in Positions, geom \in Geoms :
                      mouseReleaseEvent(pos, LeftButton, geom)
                /\ Len(rectangles') = Len(rectangles) + 1
                /\ SubSeq(rectangles', 1, Len(rectangles)) = rectangles
             \/ /\ undoLastRectangle
                /\ Len(rectangles) >= 1
                /\ rectangles' = SubSeq(rectangles, 1, Len(rectangles) - 1)
             \/ /\ \E file \in Files : loadImage(TRUE, file)
                /\ rectangles' = <<>>]_vars
    /\ [][(\/ \E pos \in Positions, button \in Buttons, geom \in Geoms :
                mousePressEvent(pos, button, geom)
           \/ \E pos \in Positions, geom \in Geoms : mouseMoveEvent(pos, geom)
           \/ \E percent \in Zooms : scaleImage(percent)
           \/ \E ext \in Extensions : saveRectangles(ext))
             => rectangles' = rectangles]_vars

\* C15 witness: two different rectangles are committed and the list has just
\* been saved as text
C15_Witness ==
    /\ saved.ext = "txt"
    /\ Len(rectangles) = 2
    /\ Len(saved.data) = 2
    /\ rectangles[1] # rectangles[2]

----
\* Loading

\* The file holds a matrix: at least one line, every line with the same
\* number of values, at least one
HoldsMatrix(file) ==
    /\ Len(file.lens) >= 1
    /\ \A i \in 1..Len(file.lens) : file.lens[i] = file.lens[1] /\ file.lens[i] >= 1

----
\* Mapping

\* C17 (as claimed): no press, move or release handler raises
C17_MappingNeverFaults ==
    fault[1] \notin {"mousePressEvent", "mouseMoveEvent", "mouseReleaseEvent"}

\* toDisplay(toOriginal(d)) with zero scroll and zero centering offset
RoundTrip(d) ==
    convertToScaledImageCoords(
        convertToOriginalImageCoords(d, FitGeom(scaled_img), original_img,
                                     scaled_img),
        original_img, scaled_img)

\* Points that cover every column and every row of the scaled image
PointsInside(scaled) ==
    {QPoint(Min(i, scaled.w - 1), Min(i, scaled.h - 1)) :
        i \in 0..(Max(scaled.w, scaled.h) - 1)}

\* C18 (as claimed): for every display point d inside the scaled image the
\* round trip differs from d by at most 1 pixel on each axis
C18_RoundTripWithinOne ==
    ~MapFaults(original_img, scaled_img) =>
        \A d \in PointsInside(scaled_img) :
            /\ Abs(RoundTrip(d).x - d.x) <= 1
            /\ Abs(RoundTrip(d).y - d.y) <= 1

\* C18 (amended): the round trip never exceeds d and falls short of it by at
\* most 2 pixels on each axis, by at most 1 pixel up to 100 percent
C18_RoundTripWithinTwo ==
    ~MapFaults(original_img, scaled_img) =>
        \A d \in PointsInside(scaled_img) :
            LET slack == IF current_scale <= 100 THEN 1 ELSE 2
            IN  /\ 0 <= d.x - RoundTrip(d).x /\ d.x - RoundTrip(d).x <= slack
                /\ 0 <= d.y - RoundTrip(d).y /\ d.y - RoundTrip(d).y <= slack

\* C18 witness: the 100 x 100 image at 175 percent, where the display point
\* (5, 5) maps to (2, 2) and back to (3, 3)
C18_Witness ==
    /\ original_img = QPixmap(100, 100) /\ scaled_img = QPixmap(175, 175)
    /\ RoundTrip(QPoint(5, 5)) = QPoint(3, 3)

----
\* Committed rectangles and the loaded image

\* C19 (as claimed): every committed rectangle lies within the bounds of the
\* image that is loaded now
C19_RectanglesWithinImage ==
    ~original_img.isNone =>
        \A i \in 1..Len(rectangles) :
            /\ InBounds(rectangles[i][1], original_img)
            /\ InBounds(rectangles[i][2], original_img)

\* The value of the file, and the pixel of the image, at line r, position c
ValueAt(file, r, c) ==
    IF <<r, c>> \in DOMAIN file.cells THEN file.cells[<<r, c>>] ELSE file.bg

PixelAt(img, r, c) ==
    IF <<r, c>> \in DOMAIN img.cells THEN img.cells[<<r, c>>] ELSE img.bg

\* C20: a load of a single-channel matrix with min < max gives an image of
\* the matrix's width and height whose channel 0 is 255 * (v - min) /
\* (max - min) truncated to an integer, 0 at min and 255 at max, and whose
\* channels 1 and 2 are 0; for the 4 x 4 centre matrix channel 0 is 255 at the
\* four centre cells and 0 elsewhere
C20_GreyLoadNormalized ==
    [][\A file \in LoadFiles :
          (HoldsMatrix(file) /\ loadImage(TRUE, file)) =>
              LET h == Len(file.lens)
                  w == file.lens[1]
                  at == (1..h) \X (1..w)
              IN  \A lo, hi \in {ValueAt(file, p[1], p[2]) : p \in at} :
                      (/\ lo < hi
                       /\ \A p \in at : /\ lo <= ValueAt(file, p[1], p[2])
                                        /\ ValueAt(file, p[1], p[2]) <= hi)
                      =>
                      /\ meta_img'.h = h /\ meta_img'.w = w
                      /\ original_img' = QPixmap(w, h)
                      /\ \A p \in at :
                            LET v == ValueAt(file, p[1], p[2])
                                px == PixelAt(meta_img', p[1], p[2])
                            IN  /\ px[1] * (hi - lo) <= 255 * (v - lo)
                                /\ 255 * (v - lo) < (px[1] + 1) * (hi - lo)
                                /\ (v = lo => px[1] = 0)
                                /\ (v = hi => px[1] = 255)
                                /\ px[2] = 0 /\ px[3] = 0
                      /\ (file = CentreFile =>
                            \A p \in at :
                                PixelAt(meta_img', p[1], p[2]) =
                                    IF p[1] \in {2, 3} /\ p[2] \in {2, 3}
                                    THEN <<255, 0, 0>>
                                    ELSE <<0, 0, 0>>)]_vars

\* C20 witness: the 4 x 4 centre matrix is loaded
C20_Witness ==
    /\ original_img = QPixmap(4, 4)
    /\ meta_img.h = 4 /\ meta_img.w = 4
    /\ PixelAt(meta_img, 2, 2) = <<255, 0, 0>>
    /\ PixelAt(meta_img, 3, 3) = <<255, 0, 0>>
    /\ PixelAt(meta_img, 1, 1) = <<0, 0, 0>>
    /\ PixelAt(meta_img, 4, 3) = <<0, 0, 0>>

\* A matrix with values 0, 1 and 2 is loaded: 1 is 127.5, truncated to 127
TruncationReached ==
    /\ meta_img.h = 2 /\ meta_img.w = 2
    /\ PixelAt(meta_img, 1, 1) = <<0, 0, 0>>
    /\ PixelAt(meta_img, 1, 2) = <<127, 0, 0>>
    /\ PixelAt(meta_img, 2, 2) = <<255, 0, 0>>

====
